---- MODULE Spec2Model ----
(***************************************************************************)
(* Model of the two event-triggered handlers of the lease pipeline:        *)
(*   metadata-generator/main.py   process_pubsub_message (the Extractor)   *)
(*                                clean_up_firestore_collection            *)
(*   datastore-refresher/main.py  refresh_datastore_document (Refresher)   *)
(*                                generate_jsonl_from_message              *)
(*                                import_documents_to_discovery_engine     *)
(* Python strings the code inspects are sequences of one-character         *)
(* strings; JSON values are tagged records.  Every external call (AI       *)
(* model, Firestore, Pub/Sub, Cloud Storage, Discovery Engine) either      *)
(* succeeds or raises, chosen nondeterministically.                        *)
(***************************************************************************)
EXTENDS Integers, Sequences, FiniteSets, Bags, TLC

\* ------------------------------------------------------------- bounds
MaxBatch == 2
MaxDocs == 2
MaxCollection == 3
MaxRefInvocations == 2

\* Two invocation slots: the platform runs each invocation on its own, and
\* invocations touch one another only through the database, the channel, the
\* staging bucket and the index.
Procs == {1, 2}

\* ------------------------------------------------- strings and JSON values
UpperChars == <<"A","B","C","D","E","F","G","H","I","J","K","L","M",
                "N","O","P","Q","R","S","T","U","V","W","X","Y","Z">>
LowerChars == <<"a","b","c","d","e","f","g","h","i","j","k","l","m",
                "n","o","p","q","r","s","t","u","v","w","x","y","z">>

LowerChar(c) ==
  IF \E i \in 1..Len(UpperChars) : UpperChars[i] = c
    THEN LowerChars[CHOOSE i \in 1..Len(UpperChars) : UpperChars[i] = c]
    ELSE c

\* str.lower()
Lower(s) == [i \in 1..Len(s) |-> LowerChar(s[i])]

\* str.startswith(pre)
StartsWith(s, pre) == Len(s) >= Len(pre) /\ SubSeq(s, 1, Len(pre)) = pre

\* str.endswith(suf)
EndsWith(s, suf) ==
  Len(s) >= Len(suf) /\ SubSeq(s, Len(s) - Len(suf) + 1, Len(s)) = suf

\* str.replace(a, b) for one-character a and b
Replace(s, a, b) == [i \in 1..Len(s) |-> IF s[i] = a THEN b ELSE s[i]]

IsSpace(c) == c \in {" ", "\t", "\n"}

RECURSIVE LStrip(_)
LStrip(s) == IF s # <<>> /\ IsSpace(Head(s)) THEN LStrip(Tail(s)) ELSE s

RECURSIVE RStrip(_)
RStrip(s) ==
  IF s # <<>> /\ IsSpace(s[Len(s)]) THEN RStrip(SubSeq(s, 1, Len(s) - 1)) ELSE s

\* str.strip()
Strip(s) == RStrip(LStrip(s))

\* JSON values as Python sees them after json.loads / dict.get
JStr(s)  == [t |-> "str", s |-> s, n |-> 0]
JInt(n)  == [t |-> "int", s |-> <<>>, n |-> n]
JNull    == [t |-> "null", s |-> <<>>, n |-> 0]
JMissing == [t |-> "missing", s |-> <<>>, n |-> 0]

\* dict.get(key) with no default: an absent key reads as None
Get(v) == IF v.t = "missing" THEN JNull ELSE v

\* dict.get(key, ""): an absent key reads as ""
GetOrEmpty(v) == IF v.t = "missing" THEN JStr(<<>>) ELSE v

\* Python truthiness of a JSON scalar ("not x")
Falsy(v) ==
  \/ v.t \in {"missing", "null"}
  \/ v.t = "str" /\ v.s = <<>>
  \/ v.t = "int" /\ v.n = 0

\* ------------------------------------------------ Extractor configuration
\* os.environ TARGET_PATH_PREFIX, here "ls"; the code appends "/"
EnvTargetPathPrefix == <<"l","s">>
TARGET_PATH_PREFIX == EnvTargetPathPrefix \o <<"/">>

PdfSuffix == <<".","p","d","f">>

BEFORE_EXEC == "google.cloud.functions.v2.Function.BEFORE_EXEC"
TrueText == <<"t","r","u","e">>

\* ------------------------------------------------------ Extractor inputs
NameValues ==
  { JMissing, JNull, JStr(<<>>), JInt(7),
    JStr(<<"l","s","/","a",".","p","d","f">>),
    JStr(<<"l","s","/","a",".","P","D","F">>),
    JStr(<<"l","s","/","a",".","t","x","t">>),
    JStr(<<"x","/","a",".","p","d","f">>),
    JStr(<<"L","S","/","a",".","p","d","f">>) }

BucketValues == { JMissing, JStr(<<"b">>) }

\* event["data"] after base64 + utf-8 + json.loads, by what decoding yields
ExtEvents ==
  { [kind |-> k, name |-> JMissing, bucket |-> JMissing] :
        k \in {"nodata", "undecodable", "nonjson", "nondict"} }
  \cup { [kind |-> "dict", name |-> nm, bucket |-> b] :
        nm \in NameValues, b \in BucketValues }

NoContext == [present |-> FALSE, event_type |-> "", has_labels |-> FALSE,
              label |-> JMissing]

Contexts ==
  { NoContext,
    [present |-> TRUE, event_type |-> "google.pubsub.topic.publish",
     has_labels |-> TRUE, label |-> JStr(TrueText)],
    [present |-> TRUE, event_type |-> BEFORE_EXEC, has_labels |-> TRUE,
     label |-> JStr(TrueText)],
    [present |-> TRUE, event_type |-> BEFORE_EXEC, has_labels |-> TRUE,
     label |-> JStr(<<"T","r","u","e">>)],
    [present |-> TRUE, event_type |-> BEFORE_EXEC, has_labels |-> TRUE,
     label |-> JStr(<<"n","o">>)],
    [present |-> TRUE, event_type |-> BEFORE_EXEC, has_labels |-> TRUE,
     label |-> JMissing],
    [present |-> TRUE, event_type |-> BEFORE_EXEC, has_labels |-> FALSE,
     label |-> JMissing] }

PubSubContext ==
  [present |-> TRUE, event_type |-> "google.pubsub.topic.publish",
   has_labels |-> FALSE, label |-> JMissing]

\* a notification outside the target prefix: name "x/a.pdf" in bucket "b"
OutsideEvent ==
  [kind |-> "dict", name |-> JStr(<<"x","/","a",".","p","d","f">>),
   bucket |-> JStr(<<"b">>)]

\* (event, context) pairs a trigger delivers: every event with the context of
\* a Pub/Sub trigger, and every context with one fixed event
ExtInputs ==
  { <<ev, PubSubContext>> : ev \in ExtEvents }
  \cup { <<OutsideEvent, ctx>> : ctx \in Contexts }

\* what response.text / json.loads(metadata_str) can be
Responses == {"object", "nonobject", "badjson", "notext"}

\* ------------------------------------------------------------ outcomes
NoOutcome         == [msg |-> "<running>", id |-> 0]
RetNone           == [msg |-> "None", id |-> 0]
RetCleared        == [msg |-> "Firestore Collection Cleared", id |-> 0]
RetNonJson        == [msg |-> "Non-JSON message skipped", id |-> 0]
RetMissing        == [msg |-> "Missing file path or bucket name in message", id |-> 0]
RetNotPdf         == [msg |-> "Not a PDF file", id |-> 0]
RetSkip(i)        == [msg |-> "Skipping existing document: ", id |-> i]
RetProcessed      == [msg |-> "PDF processed successfully.", id |-> 0]
RetDecodeError    == [msg |-> "Error decoding JSON: ", id |-> 0]
RetProcessingError == [msg |-> "Error processing PDF: ", id |-> 0]
Raised            == [msg |-> "<unhandled exception>", id |-> 0]

\* ------------------------------------------------ Refresher configuration
METADATA_BUCKET == "metadata-bucket"

NotAvailable == <<"N","o","t"," ","A","v","a","i","l","a","b","l","e">>
SentinelDate == <<"1","9","0","0","-","0","1","-","0","1">>

\* ------------------------------------------------------ Refresher inputs
LeaseUriA == <<"g","s",":","/","/","b","/","l","s","/","a",".","p","d","f">>
LeaseUriB == <<"g","s",":","/","/","b","/","l","s","/","b",".","p","d","f">>
Date2024 == <<"2","0","2","4","-","0","1","-","0","1">>
Date2024Slashed == <<"2","0","2","4","/","0","1","/","0","1">>
Date2025 == <<"2","0","2","5","-","0","1","-","0","1">>

\* the decoded JSON body of a message; keys the body lacks are JMissing
Payload(fp, sd, ed, rent) ==
  [city |-> JStr(<<"T">>), street |-> JMissing, province |-> JMissing,
   postalcode |-> JMissing, lease_start_date |-> sd, lease_end_date |-> ed,
   rent |-> rent, file_path |-> fp, document_language |-> JMissing]

NoPayload == Payload(JMissing, JMissing, JMissing, JMissing)

PayloadFull      == Payload(JStr(LeaseUriA), JStr(Date2024), JStr(Date2025), JInt(2500))
PayloadSparse    == Payload(JStr(LeaseUriA), JStr(<<>>), JStr(NotAvailable), JStr(NotAvailable))
PayloadSlashed   == Payload(JStr(LeaseUriB), JStr(Date2024Slashed), JMissing, JMissing)
PayloadNoPath    == Payload(JMissing, JStr(Date2024), JStr(Date2025), JInt(2500))
PayloadNullPath  == Payload(JNull, JStr(Date2024), JStr(Date2025), JInt(2500))
PayloadNullDate  == Payload(JStr(LeaseUriA), JNull, JStr(Date2025), JInt(2500))

\* Pub/Sub events of the Refresher, by what "data" decodes to
RefEvents ==
  { [kind |-> k, data |-> NoPayload] :
        k \in {"nodata", "undecodable", "nonjson", "nondict"} }
  \cup { [kind |-> "dict", data |-> d] :
        d \in {PayloadFull, PayloadSparse, PayloadSlashed, PayloadNoPath,
               PayloadNullPath, PayloadNullDate} }

\* every combination of date and rent values, for the normalisation alone
NormEvents ==
  { [kind |-> "dict", data |-> Payload(fp, sd, ed, rent)] :
      fp \in {JStr(LeaseUriA), JMissing},
      sd \in {JMissing, JNull, JStr(<<>>), JStr(<<" ">>), JStr(NotAvailable),
              JStr(<<" ">> \o NotAvailable), JStr(Date2024), JStr(Date2024Slashed)},
      ed \in {JMissing, JStr(NotAvailable), JStr(Date2025), JInt(2025)},
      rent \in {JMissing, JNull, JStr(<<>>), JStr(<<" ">>), JStr(NotAvailable),
                JInt(2500), JInt(0), JInt(-1)} }

NoObject == [id |-> "None"]

VARIABLES
  OVERWRITE_EXISTING_METADATA, \* module configuration, fixed per deployment
  db,                          \* the Firestore collection: set of documents
  nextId,                      \* source of Firestore auto-generated ids
  channel,                     \* bag of messages published on the forwarding topic
  pc, event, context,          \* per invocation: position and arguments
  batch_size,                  \* per clear: batch_size of clean_up_firestore_collection
  pdf_file_uri, response, existing_doc, outcome,
  ai_calls, db_reads, db_writes, db_deletes, publishes,
  passes, deleted,             \* bulk clear: passes made, docs deleted by the last pass
  had_record, n0,              \* history: at entry, a record of the path existed; size of db
  overlapped                   \* history: two invocations have overlapped

extVars == <<OVERWRITE_EXISTING_METADATA, db, nextId, channel, pc, event,
             context, batch_size, pdf_file_uri, response, existing_doc,
             outcome, ai_calls, db_reads, db_writes, db_deletes, publishes,
             passes, deleted, had_record, n0, overlapped>>

VARIABLES
  staging,                     \* objects of the metadata bucket: name and body
  index,                       \* documents of the Discovery Engine data store
  rpc, revent,                 \* per Refresher invocation: position and event
  file_hash, jsonl_object, blob_name, import_status, fault,
  uploads, imports,            \* per invocation: uploads done, imports requested
  rstarted, imports_ok         \* history: invocations begun, imports completed

refVars == <<staging, index, rpc, revent, file_hash, jsonl_object, blob_name,
             import_status, fault, uploads, imports, rstarted, imports_ok>>

vars == <<extVars, refVars>>

\* ------------------------------------------------- Extractor pure parts
\* lines 104-110: evaluating clear_firestore raises when resource has no labels
ContextRaises(ctx) ==
  ctx.present /\ ctx.event_type = BEFORE_EXEC /\ ~ctx.has_labels

\* lines 104-110
ClearFirestore(ctx) ==
  /\ ctx.present
  /\ ctx.event_type = BEFORE_EXEC
  /\ ctx.has_labels
  /\ ctx.label.t = "str"
  /\ Lower(ctx.label.s) = TrueText

\* a plausible slip: the prefix is compared case-insensitively
InTargetPathAnyCase(file_path) == StartsWith(Lower(file_path), TARGET_PATH_PREFIX)

\* line 137
InTargetPath(file_path) == StartsWith(file_path, TARGET_PATH_PREFIX)

\* line 142
IsPdf(file_path) == EndsWith(Lower(file_path), PdfSuffix)

\* line 147
GcsUri(bucket_name, file_path) ==
  <<"g","s",":","/","/">> \o bucket_name \o <<"/">> \o file_path

\* lines 121-144: the outcome decided before any client is built, or NoOutcome
Prefilter(ev) ==
  CASE ev.kind \in {"nodata", "undecodable"} -> RetProcessingError
    [] ev.kind = "nonjson" -> RetNonJson
    [] ev.kind = "nondict" -> RetProcessingError
    [] OTHER ->
         IF Falsy(Get(ev.name)) \/ Falsy(Get(ev.bucket)) THEN RetMissing
         ELSE IF ev.name.t # "str" THEN RetProcessingError
         ELSE IF ~InTargetPath(ev.name.s) THEN RetNone
         ELSE IF ~IsPdf(ev.name.s) THEN RetNotPdf
         ELSE NoOutcome

Qualifies(ev) == Prefilter(ev) = NoOutcome

\* a plausible slip: no except clause for json.JSONDecodeError
ResponseOutcomeNoDecodeClause(r) ==
  IF r = "object" THEN NoOutcome ELSE RetProcessingError

\* lines 170-173 and 210-216: what the handler does with response.text
ResponseOutcome(r) ==
  CASE r = "object" -> NoOutcome
    [] r = "badjson" -> RetDecodeError
    [] OTHER -> RetProcessingError

\* a plausible slip: the query filters on a field the records do not carry
MatchingNothing(coll, uri) == { d \in coll : FALSE }

\* line 183: documents whose file_path equals the uri
Matching(coll, uri) == { d \in coll : d.file_path = uri }

\* a plausible slip: the overwrite flag read the wrong way round
SkipExistingInverted(existing, overwrite) == existing # 0 /\ overwrite

\* line 186
SkipExisting(existing, overwrite) == existing # 0 /\ ~overwrite

\* a plausible slip: > where the code has >=
ShouldRecurseStrict(n, bs) == n > bs

\* line 90
ShouldRecurse(n, bs) == n >= bs

\* line 204: the published message is the stored metadata
Message(uri) == [file_path |-> uri]

Active(p) == pc[p] \notin {"idle", "returned", "raised"}

\* No invocation has returned without its return having been observed.  A
\* return is observed (Finish) before any other step is taken: Finish only
\* resets that invocation's own locals, so it commutes with every other step.
Settled == \A q \in Procs : pc[q] \notin {"returned", "raised"}

IdleEvent == [kind |-> "nodata", name |-> JMissing, bucket |-> JMissing]

InitLocals ==
  /\ pc = [p \in Procs |-> "idle"]
  /\ event = [p \in Procs |-> IdleEvent]
  /\ context = [p \in Procs |-> NoContext]
  /\ batch_size = [p \in Procs |-> 1]
  /\ pdf_file_uri = [p \in Procs |-> <<>>]
  /\ response = [p \in Procs |-> "unset"]
  /\ existing_doc = [p \in Procs |-> 0]
  /\ outcome = [p \in Procs |-> NoOutcome]
  /\ ai_calls = [p \in Procs |-> 0]
  /\ db_reads = [p \in Procs |-> 0]
  /\ db_writes = [p \in Procs |-> 0]
  /\ db_deletes = [p \in Procs |-> 0]
  /\ publishes = [p \in Procs |-> 0]
  /\ passes = [p \in Procs |-> 0]
  /\ deleted = [p \in Procs |-> 0]
  /\ had_record = [p \in Procs |-> FALSE]
  /\ n0 = [p \in Procs |-> 0]
  /\ overlapped = FALSE

ExtInit ==
  /\ OVERWRITE_EXISTING_METADATA \in BOOLEAN
  /\ db = {}
  /\ nextId = 1
  /\ channel = EmptyBag
  /\ InitLocals

RefInit ==
  /\ staging = {}
  /\ index = {}
  /\ rpc = [p \in Procs |-> "idle"]
  /\ revent = [p \in Procs |-> [kind |-> "nodata", data |-> NoPayload]]
  /\ file_hash = [p \in Procs |-> ""]
  /\ jsonl_object = [p \in Procs |-> NoObject]
  /\ blob_name = [p \in Procs |-> <<>>]
  /\ import_status = [p \in Procs |-> ""]
  /\ fault = [p \in Procs |-> "none"]
  /\ uploads = [p \in Procs |-> 0]
  /\ imports = [p \in Procs |-> 0]
  /\ rstarted = 0
  /\ imports_ok = 0

Init == ExtInit /\ RefInit

Return(p, out) ==
  /\ pc' = [pc EXCEPT ![p] = IF out = Raised THEN "raised" ELSE "returned"]
  /\ outcome' = [outcome EXCEPT ![p] = out]

\* process_pubsub_message, lines 103-144: entry, clear test, decode, filters.
\* Firestore ids are capped at MaxDocs: no invocation that could insert begins
\* once the invocations under way could use them up.
Start(p, ev, ctx) ==
  /\ UNCHANGED refVars
  /\ Settled
  /\ pc[p] = "idle"
  /\ overlapped' = (overlapped \/ \E q \in Procs \ {p} : Active(q))
  /\ event' = [event EXCEPT ![p] = ev]
  /\ context' = [context EXCEPT ![p] = ctx]
  /\ IF ContextRaises(ctx)
       THEN Return(p, Raised) /\ UNCHANGED <<pdf_file_uri, batch_size, had_record, n0>>
     ELSE IF ClearFirestore(ctx)
       THEN /\ pc' = [pc EXCEPT ![p] = "clear"]
            /\ \E bs \in 1..MaxBatch : batch_size' = [batch_size EXCEPT ![p] = bs]
            /\ n0' = [n0 EXCEPT ![p] = Cardinality(db)]
            /\ UNCHANGED <<outcome, pdf_file_uri, had_record>>
     ELSE IF Qualifies(ev)
       THEN /\ nextId + Cardinality({q \in Procs : pc[q] \in {"generate", "query", "set"}})
                 <= MaxDocs
            /\ pc' = [pc EXCEPT ![p] = "generate"]
            /\ pdf_file_uri' = [pdf_file_uri EXCEPT ![p] = GcsUri(ev.bucket.s, ev.name.s)]
            /\ had_record' = [had_record EXCEPT ![p] =
                 Matching(db, GcsUri(ev.bucket.s, ev.name.s)) # {}]
            /\ UNCHANGED <<outcome, batch_size, n0>>
     ELSE Return(p, Prefilter(ev)) /\ UNCHANGED <<pdf_file_uri, batch_size, had_record, n0>>
  /\ UNCHANGED <<OVERWRITE_EXISTING_METADATA, db, nextId, channel,
                 response, existing_doc, ai_calls, db_reads, db_writes,
                 db_deletes, publishes, passes, deleted>>

\* lines 150-180: clients, prompt, generate_content, json.loads of the answer
Generate(p) ==
  /\ UNCHANGED refVars
  /\ Settled
  /\ pc[p] = "generate"
  /\ \/ \* a client constructor, Part.from_uri or the template raises
        /\ Return(p, RetProcessingError)
        /\ UNCHANGED <<ai_calls, response>>
     \/ \* generate_content raises
        /\ ai_calls' = [ai_calls EXCEPT ![p] = @ + 1]
        /\ Return(p, RetProcessingError)
        /\ UNCHANGED response
     \/ \E r \in Responses :
        /\ ai_calls' = [ai_calls EXCEPT ![p] = @ + 1]
        /\ response' = [response EXCEPT ![p] = r]
        /\ IF ResponseOutcome(r) = NoOutcome
             THEN pc' = [pc EXCEPT ![p] = "query"] /\ UNCHANGED outcome
             ELSE Return(p, ResponseOutcome(r))
  /\ UNCHANGED <<OVERWRITE_EXISTING_METADATA, db, nextId, channel, event,
                 context, batch_size, pdf_file_uri, existing_doc, db_reads,
                 db_writes, db_deletes, publishes, passes, deleted,
                 had_record, n0, overlapped>>

\* lines 183-188: existence query, skip when found and overwrite is off
Query(p) ==
  /\ UNCHANGED refVars
  /\ Settled
  /\ pc[p] = "query"
  /\ \/ \* the query raises
        /\ Return(p, RetProcessingError)
        /\ UNCHANGED <<db_reads, existing_doc>>
     \/ /\ db_reads' = [db_reads EXCEPT ![p] = @ + 1]
        /\ \E found \in (IF Matching(db, pdf_file_uri[p]) = {} THEN {0}
                         ELSE { d.id : d \in Matching(db, pdf_file_uri[p]) }) :
             /\ existing_doc' = [existing_doc EXCEPT ![p] = found]
             /\ IF SkipExisting(found, OVERWRITE_EXISTING_METADATA)
                  THEN Return(p, RetSkip(found))
                  ELSE pc' = [pc EXCEPT ![p] = "set"] /\ UNCHANGED outcome
  /\ UNCHANGED <<OVERWRITE_EXISTING_METADATA, db, nextId, channel, event,
                 context, batch_size, pdf_file_uri, response, ai_calls,
                 db_writes, db_deletes, publishes, passes, deleted,
                 had_record, n0, overlapped>>

\* lines 194-198: a fresh auto-id document reference, then set(metadata)
SetDoc(p) ==
  /\ UNCHANGED refVars
  /\ Settled
  /\ pc[p] = "set"
  /\ \/ \* set raises
        /\ Return(p, RetProcessingError)
        /\ UNCHANGED <<db, nextId, db_writes>>
     \/ /\ db' = db \cup {[id |-> nextId, file_path |-> pdf_file_uri[p]]}
        /\ nextId' = nextId + 1
        /\ db_writes' = [db_writes EXCEPT ![p] = @ + 1]
        /\ pc' = [pc EXCEPT ![p] = "publish"]
        /\ UNCHANGED outcome
  /\ UNCHANGED <<OVERWRITE_EXISTING_METADATA, channel, event, context,
                 batch_size, pdf_file_uri, response, existing_doc, ai_calls,
                 db_reads, db_deletes, publishes, passes, deleted,
                 had_record, n0, overlapped>>

\* lines 200-208: publish the metadata, wait for the message id
Publish(p) ==
  /\ UNCHANGED refVars
  /\ Settled
  /\ pc[p] = "publish"
  /\ \/ \* publish or future.result() raises
        /\ Return(p, RetProcessingError)
        /\ UNCHANGED <<channel, publishes>>
     \/ /\ channel' = channel (+) SetToBag({Message(pdf_file_uri[p])})
        /\ publishes' = [publishes EXCEPT ![p] = @ + 1]
        /\ Return(p, RetProcessed)
  /\ UNCHANGED <<OVERWRITE_EXISTING_METADATA, db, nextId, event, context,
                 batch_size, pdf_file_uri, response, existing_doc, ai_calls,
                 db_reads, db_writes, db_deletes, passes, deleted,
                 had_record, n0, overlapped>>

\* clean_up_firestore_collection, lines 83-91, called at lines 112-117: one pass
ClearPass(p) ==
  /\ UNCHANGED refVars
  /\ Settled
  /\ pc[p] = "clear"
  /\ \E batch \in SUBSET db :
       /\ Cardinality(batch) = IF Cardinality(db) < batch_size[p]
                                 THEN Cardinality(db) ELSE batch_size[p]
       /\ \/ \* every delete of the pass succeeds
             /\ db' = db \ batch
             /\ db_deletes' = [db_deletes EXCEPT ![p] = @ + Cardinality(batch)]
             /\ deleted' = [deleted EXCEPT ![p] = Cardinality(batch)]
             /\ IF ShouldRecurse(Cardinality(batch), batch_size[p])
                  THEN UNCHANGED <<pc, outcome>>
                  ELSE Return(p, RetCleared)
          \/ \* stream() or a delete raises after part of the batch is gone
             \E gone \in SUBSET batch :
               /\ gone # batch \/ batch = {}
               /\ db' = db \ gone
               /\ db_deletes' = [db_deletes EXCEPT ![p] = @ + Cardinality(gone)]
               /\ deleted' = [deleted EXCEPT ![p] = Cardinality(gone)]
               /\ Return(p, Raised)
  /\ passes' = [passes EXCEPT ![p] = @ + 1]
  /\ db_reads' = [db_reads EXCEPT ![p] = @ + 1]
  /\ UNCHANGED <<OVERWRITE_EXISTING_METADATA, nextId, channel, event, context,
                 batch_size, pdf_file_uri, response, existing_doc, ai_calls,
                 db_writes, publishes, had_record, n0, overlapped>>

\* the invocation is over; its slot serves the next trigger
Finish(p) ==
  /\ UNCHANGED refVars
  /\ pc[p] \in {"returned", "raised"}
  /\ pc' = [pc EXCEPT ![p] = "idle"]
  /\ event' = [event EXCEPT ![p] = IdleEvent]
  /\ context' = [context EXCEPT ![p] = NoContext]
  /\ batch_size' = [batch_size EXCEPT ![p] = 1]
  /\ pdf_file_uri' = [pdf_file_uri EXCEPT ![p] = <<>>]
  /\ response' = [response EXCEPT ![p] = "unset"]
  /\ existing_doc' = [existing_doc EXCEPT ![p] = 0]
  /\ outcome' = [outcome EXCEPT ![p] = NoOutcome]
  /\ ai_calls' = [ai_calls EXCEPT ![p] = 0]
  /\ db_reads' = [db_reads EXCEPT ![p] = 0]
  /\ db_writes' = [db_writes EXCEPT ![p] = 0]
  /\ db_deletes' = [db_deletes EXCEPT ![p] = 0]
  /\ publishes' = [publishes EXCEPT ![p] = 0]
  /\ passes' = [passes EXCEPT ![p] = 0]
  /\ deleted' = [deleted EXCEPT ![p] = 0]
  /\ had_record' = [had_record EXCEPT ![p] = FALSE]
  /\ n0' = [n0 EXCEPT ![p] = 0]
  /\ UNCHANGED <<OVERWRITE_EXISTING_METADATA, db, nextId, channel, overlapped>>

\* ------------------------------------------------- Refresher pure parts
\* hashlib.md5(...).hexdigest() on the strings the inputs above can hash
MD5Hex(s) ==
  CASE s = <<>> -> "d41d8cd98f00b204e9800998ecf8427e"
    [] s = LeaseUriA -> "c87af7ed702f7c24c113fc019acab5d8"
    [] s = LeaseUriB -> "5bfe6c1b36a084c651bf734e32f1f33e"

\* a plausible slip: the digest is taken of the whole message, not of the path
FileHashOfMessage(data) ==
  CASE data = PayloadFull -> "e6295fdf7f3a982f245743e305ab7915"
    [] data = PayloadSparse -> "e71cc948e7c82b174d9381b201b7f1ae"
    [] data = PayloadSlashed -> "27f9835bcd98a86ca6178813f7b3bc99"
    [] data = PayloadNoPath -> "57e99795bb5e87716558f12e732c7202"
    [] OTHER -> "d3758b180c49f6f056ef82ef89660540"

\* lines 171-175
FileHash(data) == MD5Hex(GetOrEmpty(data.file_path).s)

\* what lines 168-175 raise, or "none"
DecodeException(ev) ==
  CASE ev.kind = "undecodable" -> "binascii.Error"
    [] ev.kind = "nonjson" -> "JSONDecodeError"
    [] ev.kind = "nondict" -> "AttributeError"
    [] ev.kind = "dict" /\ GetOrEmpty(ev.data.file_path).t # "str" -> "AttributeError"
    [] OTHER -> "none"

\* line 206: except Exception
HandlerCatches(exc) ==
  exc \in {"binascii.Error", "JSONDecodeError", "AttributeError", "GoogleAPIError"}

\* line 87: except Exception
ImportCatches(exc) ==
  exc \in {"binascii.Error", "JSONDecodeError", "AttributeError", "GoogleAPIError"}

\* urllib.parse.urlparse on "gs://netloc/path" and on strings with no scheme
GsScheme == <<"g","s",":","/","/">>
HasGsScheme(s) == StartsWith(s, GsScheme)
AfterScheme(s) == SubSeq(s, Len(GsScheme) + 1, Len(s))
FirstSlash(r) ==
  IF \E i \in 1..Len(r) : r[i] = "/"
    THEN CHOOSE i \in 1..Len(r) : r[i] = "/" /\ \A j \in 1..(i - 1) : r[j] # "/"
    ELSE Len(r) + 1
UrlNetloc(s) ==
  IF HasGsScheme(s) THEN SubSeq(AfterScheme(s), 1, FirstSlash(AfterScheme(s)) - 1)
  ELSE <<>>
UrlPath(s) ==
  IF HasGsScheme(s)
    THEN SubSeq(AfterScheme(s), FirstSlash(AfterScheme(s)), Len(AfterScheme(s)))
    ELSE s

\* os.path.basename
LastSlash(path) ==
  IF \E i \in 1..Len(path) : path[i] = "/"
    THEN CHOOSE i \in 1..Len(path) :
           path[i] = "/" /\ \A j \in (i + 1)..Len(path) : path[j] # "/"
    ELSE 0
BaseName(path) == SubSeq(path, LastSlash(path) + 1, Len(path))

RECURSIVE LStripSlash(_)
LStripSlash(s) == IF s # <<>> /\ Head(s) = "/" THEN LStripSlash(Tail(s)) ELSE s

\* lines 128-131
HttpsUrl(file_path) ==
  <<"https://storage.cloud.google.com/">> \o UrlNetloc(file_path) \o <<"/">>
    \o LStripSlash(UrlPath(file_path))

\* lines 114-115 and 121-122, applied to a string
NormalizeDate(s) ==
  IF Strip(Replace(s, "/", "-")) \in {NotAvailable, <<>>}
    THEN SentinelDate
    ELSE Replace(s, "/", "-")

\* a plausible slip: data.get("rent") with no default
NormalizeRentNoDefault(v) ==
  IF Get(v) \in {JStr(NotAvailable), JStr(<<>>)} THEN JInt(-1) ELSE Get(v)

\* lines 116 and 123
NormalizeRent(v) ==
  IF GetOrEmpty(v) \in {JStr(NotAvailable), JStr(<<>>)} THEN JInt(-1)
  ELSE GetOrEmpty(v)

\* generate_jsonl_from_message, lines 104-154: the object, or None on any error
GenerateJsonl(ev, hash) ==
  IF \/ ev.kind # "dict"
     \/ GetOrEmpty(ev.data.lease_start_date).t # "str"
     \/ GetOrEmpty(ev.data.lease_end_date).t # "str"
     \/ GetOrEmpty(ev.data.file_path).t # "str"
    THEN NoObject
    ELSE
      [id |-> hash,
       content |-> [mimeType |-> "application/pdf",
                    uri |-> GetOrEmpty(ev.data.file_path).s],
       structData |->
         [title |-> BaseName(UrlPath(GetOrEmpty(ev.data.file_path).s)),
          city |-> GetOrEmpty(ev.data.city),
          street |-> GetOrEmpty(ev.data.street),
          province |-> GetOrEmpty(ev.data.province),
          postalcode |-> GetOrEmpty(ev.data.postalcode),
          lease_start_date |-> NormalizeDate(GetOrEmpty(ev.data.lease_start_date).s),
          lease_end_date |-> NormalizeDate(GetOrEmpty(ev.data.lease_end_date).s),
          rent |-> NormalizeRent(ev.data.rent),
          document_language |-> GetOrEmpty(ev.data.document_language),
          url |-> HttpsUrl(GetOrEmpty(ev.data.file_path).s)]]

\* a plausible slip: the "if not jsonl_object: return" is missing
ProceedsAlways(obj) == TRUE

\* lines 180-182
ProceedsToUpload(obj) == obj.id # "None"

\* lines 187-189
BlobName(hash) == <<"jsonl-metadata/", hash, ".jsonl">>

\* line 193
GsPath(name) == <<"gs://", METADATA_BUCKET, "/">> \o name

RSettled == \A q \in Procs : rpc[q] \notin {"done", "raised"}

REnd(p, exc) ==
  rpc' = [rpc EXCEPT ![p] = IF HandlerCatches(exc) THEN "done" ELSE "raised"]

\* the trigger delivers a message to refresh_datastore_document
RReceive(p, ev) ==
  /\ UNCHANGED extVars
  /\ RSettled
  /\ rpc[p] = "idle"
  /\ rstarted < MaxRefInvocations
  /\ rstarted' = rstarted + 1
  /\ rpc' = [rpc EXCEPT ![p] = "decode"]
  /\ revent' = [revent EXCEPT ![p] = ev]
  /\ UNCHANGED <<staging, index, file_hash, jsonl_object, blob_name,
                 import_status, fault, uploads, imports, imports_ok>>

\* lines 166-182: decode, parse, hash the path, build the import record
RBuild(p) ==
  /\ UNCHANGED extVars
  /\ RSettled
  /\ rpc[p] = "decode"
  /\ IF revent[p].kind = "nodata"
       THEN /\ rpc' = [rpc EXCEPT ![p] = "done"]
            /\ UNCHANGED <<file_hash, jsonl_object, fault>>
     ELSE IF DecodeException(revent[p]) # "none"
       THEN /\ REnd(p, DecodeException(revent[p]))
            /\ fault' = [fault EXCEPT ![p] = "decode"]
            /\ UNCHANGED <<file_hash, jsonl_object>>
     ELSE /\ file_hash' = [file_hash EXCEPT ![p] = FileHash(revent[p].data)]
          /\ jsonl_object' = [jsonl_object EXCEPT ![p] =
               GenerateJsonl(revent[p], FileHash(revent[p].data))]
          /\ IF ProceedsToUpload(GenerateJsonl(revent[p], FileHash(revent[p].data)))
               THEN rpc' = [rpc EXCEPT ![p] = "upload"] /\ UNCHANGED fault
               ELSE /\ rpc' = [rpc EXCEPT ![p] = "done"]
                    /\ fault' = [fault EXCEPT ![p] = "build"]
  /\ UNCHANGED <<staging, index, revent, blob_name, import_status, uploads,
                 imports, rstarted, imports_ok>>

\* lines 185-194: write the object jsonl-metadata/<hash>.jsonl
RUpload(p) ==
  /\ UNCHANGED extVars
  /\ RSettled
  /\ rpc[p] = "upload"
  /\ \/ \* the storage client or the upload raises
        /\ REnd(p, "GoogleAPIError")
        /\ fault' = [fault EXCEPT ![p] = "upload"]
        /\ UNCHANGED <<staging, blob_name, uploads>>
     \/ /\ staging' = { o \in staging : o.name # BlobName(file_hash[p]) }
                      \cup {[name |-> BlobName(file_hash[p]), body |-> jsonl_object[p]]}
        /\ blob_name' = [blob_name EXCEPT ![p] = BlobName(file_hash[p])]
        /\ uploads' = [uploads EXCEPT ![p] = @ + 1]
        /\ rpc' = [rpc EXCEPT ![p] = "import"]
        /\ UNCHANGED fault
  /\ UNCHANGED <<index, revent, file_hash, jsonl_object, import_status,
                 imports, rstarted, imports_ok>>

\* lines 198-201 and import_documents_to_discovery_engine, lines 61-90.
\* A completed INCREMENTAL import (line 73) replaces the index document whose
\* id the staged document carries and leaves the others.
RImport(p) ==
  /\ UNCHANGED extVars
  /\ RSettled
  /\ rpc[p] = "import"
  /\ imports' = [imports EXCEPT ![p] = @ + 1]
  /\ \/ \* the client or the operation raises
        /\ import_status' = [import_status EXCEPT ![p] = "Error importing documents: "]
        /\ fault' = [fault EXCEPT ![p] = "import"]
        /\ rpc' = [rpc EXCEPT ![p] =
             IF ImportCatches("GoogleAPIError") \/ HandlerCatches("GoogleAPIError")
               THEN "done" ELSE "raised"]
        /\ UNCHANGED <<index, imports_ok>>
     \/ \* the operation reports error samples
        /\ import_status' = [import_status EXCEPT ![p] = "Operation failed with errors: "]
        /\ fault' = [fault EXCEPT ![p] = "import"]
        /\ rpc' = [rpc EXCEPT ![p] = "done"]
        /\ UNCHANGED <<index, imports_ok>>
     \/ \E o \in { x \in staging : x.name = blob_name[p] } :
        /\ index' = { d \in index : d.id # o.body.id } \cup {o.body}
        /\ imports_ok' = imports_ok + 1
        /\ import_status' = [import_status EXCEPT ![p] = "Imported successfully!"]
        /\ rpc' = [rpc EXCEPT ![p] = "done"]
        /\ UNCHANGED fault
  /\ UNCHANGED <<staging, revent, file_hash, jsonl_object, blob_name, uploads,
                 rstarted>>

\* the invocation is over; its slot serves the next message
RFinish(p) ==
  /\ UNCHANGED extVars
  /\ rpc[p] \in {"done", "raised"}
  /\ rpc' = [rpc EXCEPT ![p] = "idle"]
  /\ revent' = [revent EXCEPT ![p] = [kind |-> "nodata", data |-> NoPayload]]
  /\ file_hash' = [file_hash EXCEPT ![p] = ""]
  /\ jsonl_object' = [jsonl_object EXCEPT ![p] = NoObject]
  /\ blob_name' = [blob_name EXCEPT ![p] = <<>>]
  /\ import_status' = [import_status EXCEPT ![p] = ""]
  /\ fault' = [fault EXCEPT ![p] = "none"]
  /\ uploads' = [uploads EXCEPT ![p] = 0]
  /\ imports' = [imports EXCEPT ![p] = 0]
  /\ UNCHANGED <<staging, index, rstarted, imports_ok>>

\* ------------------------------------------------------- specifications
\* Extractor invocations, overlapping freely
Next ==
  \E p \in Procs :
    \/ \E in \in ExtInputs : Start(p, in[1], in[2])
    \/ Generate(p)
    \/ Query(p)
    \/ SetDoc(p)
    \/ Publish(p)
    \/ ClearPass(p)
    \/ Finish(p)

Spec == Init /\ [][Next]_vars

\* Extractor invocations one after the other: none begins while another runs
SeqStart(p, ev, ctx) == Start(p, ev, ctx) /\ ~overlapped'

SeqNext ==
  \E p \in Procs :
    \/ \E in \in ExtInputs : SeqStart(p, in[1], in[2])
    \/ Generate(p)
    \/ Query(p)
    \/ SetDoc(p)
    \/ Publish(p)
    \/ ClearPass(p)
    \/ Finish(p)

SeqSpec == Init /\ [][SeqNext]_vars

\* Bulk clear alone, on every collection of up to MaxCollection documents
ClearUris ==
  { GcsUri(<<"b">>, <<"l","s","/","a",".","p","d","f">>),
    GcsUri(<<"b">>, <<"l","s","/","a",".","P","D","F">>) }

ClearInit ==
  /\ OVERWRITE_EXISTING_METADATA \in BOOLEAN
  /\ \E n \in 0..MaxCollection :
       /\ nextId = n + 1
       /\ \E f \in [1..n -> ClearUris] :
            db = { [id |-> i, file_path |-> f[i]] : i \in 1..n }
  /\ channel = EmptyBag
  /\ InitLocals
  /\ RefInit

ClearNext ==
  \E p \in Procs :
    \/ \E ctx \in { c \in Contexts : ClearFirestore(c) } : Start(p, OutsideEvent, ctx)
    \/ ClearPass(p)
    \/ Finish(p)

\* every invocation runs on: a pass that can be made is made, a return is observed
ClearSpec ==
  /\ ClearInit
  /\ [][ClearNext]_vars
  /\ \A p \in Procs : SF_vars(ClearPass(p)) /\ WF_vars(Finish(p))

\* Refresher invocations, overlapping freely
RefNext ==
  \E p \in Procs :
    \/ \E ev \in RefEvents : RReceive(p, ev)
    \/ RBuild(p)
    \/ RUpload(p)
    \/ RImport(p)
    \/ RFinish(p)

RefSpec == Init /\ [][RefNext]_vars

\* generate_jsonl_from_message on every combination of field values
NormNext ==
  \/ \E ev \in NormEvents : RReceive(1, ev)
  \/ RBuild(1)

NormSpec == Init /\ [][NormNext]_vars

\* --------------------------------------------------------------- claims
\* the notification names a file inside the target prefix with a .pdf suffix
QualifyingFile(ev) ==
  /\ ev.kind = "dict"
  /\ ev.name.t = "str" /\ ev.bucket.t = "str" /\ ev.bucket.s # <<>>
  /\ StartsWith(ev.name.s, TARGET_PATH_PREFIX)
  /\ EndsWith(Lower(ev.name.s), PdfSuffix)

\* the invocation is a storage notification, not the administrative clear
Notification(p) ==
  pc[p] # "idle" /\ ~ClearFirestore(context[p]) /\ ~ContextRaises(context[p])

RecordsOf(uri) == { d \in db : d.file_path = uri }

\* the case of C1: a qualifying file, its path already recorded, overwrite off
SkipCase(p) ==
  /\ Notification(p)
  /\ QualifyingFile(event[p])
  /\ ~OVERWRITE_EXISTING_METADATA
  /\ had_record[p]

\* C1 as stated: in the skip case every invocation writes nothing, publishes
\* nothing and returns the outcome that reports the existing record's id.
C1_AlwaysReportsExisting ==
  \A p \in Procs :
    (SkipCase(p) /\ pc[p] = "returned") =>
      /\ db_writes[p] = 0 /\ publishes[p] = 0
      /\ outcome[p].msg = RetSkip(0).msg
      /\ outcome[p].id \in { d.id : d \in RecordsOf(pdf_file_uri[p]) }

C1_SkipState ==
  \A p \in Procs :
    SkipCase(p) =>
      /\ db_writes[p] = 0 /\ db_deletes[p] = 0 /\ publishes[p] = 0
      /\ pc[p] = "returned" =>
           IF response[p] = "object" /\ db_reads[p] = 1
             THEN /\ outcome[p].msg = RetSkip(0).msg
                  /\ outcome[p].id \in { d.id : d \in RecordsOf(pdf_file_uri[p]) }
             ELSE outcome[p] \in {RetDecodeError, RetProcessingError}

\* C1 as amended: in the skip case (invocations not overlapping) no step of
\* the invocation changes the database or the channel, it writes and publishes
\* nothing, and it returns the outcome reporting an existing record's id when
\* the extraction yields a JSON object and the existence query succeeds, an
\* error outcome otherwise.
C1_SkipIsNoOp ==
  /\ []C1_SkipState
  /\ [][\A p \in Procs : SkipCase(p)' => (db' = db /\ channel' = channel)]_vars

C1_Witness ==
  \E p \in Procs :
    /\ SkipCase(p) /\ pc[p] = "returned"
    /\ outcome[p].msg = RetSkip(0).msg
    /\ outcome[p].id \in { d.id : d \in RecordsOf(pdf_file_uri[p]) }

\* C2 as stated: after non-overlapping invocations, under either setting of
\* the overwrite flag, the database holds at most one record per file path.
C2_OneRecordPerPath ==
  \A d1, d2 \in db : d1.file_path = d2.file_path => d1.id = d2.id

\* C3 as stated: no Extractor invocation ends by raising.
C3_NeverRaises == \A p \in Procs : pc[p] # "raised"

\* the case of C4: a notification that lacks the name or the bucket, or whose
\* name is outside the prefix or has no .pdf suffix
UnqualifiedFile(ev) ==
  /\ ev.kind = "dict"
  /\ \/ ev.name.t = "missing"
     \/ ev.bucket.t = "missing"
     \/ /\ ev.name.t = "str"
        /\ \/ ~StartsWith(ev.name.s, TARGET_PATH_PREFIX)
           \/ ~EndsWith(Lower(ev.name.s), PdfSuffix)

\* C4: a notification of an unqualified file ends at once with no AI call, no
\* database read, write or delete, and no publish.
C4_UnqualifiedNoEffects ==
  \A p \in Procs :
    (Notification(p) /\ UnqualifiedFile(event[p])) =>
      /\ pc[p] = "returned"
      /\ ai_calls[p] = 0 /\ db_reads[p] = 0 /\ db_writes[p] = 0
      /\ db_deletes[p] = 0 /\ publishes[p] = 0

C4_Witness ==
  \E p \in Procs :
    /\ Notification(p) /\ UnqualifiedFile(event[p])
    /\ event[p].name = JStr(<<"L","S","/","a",".","p","d","f">>)
    /\ event[p].bucket = JStr(<<"b">>)
    /\ pc[p] = "returned" /\ outcome[p] = RetNone

\* C5: when the extraction returns text that is not JSON, the invocation
\* returns the decode-error outcome, which differs from the processing-failure
\* outcome, and has written and published nothing.
C5_DecodeErrorOutcome ==
  \A p \in Procs :
    response[p] = "badjson" =>
      /\ pc[p] = "returned"
      /\ outcome[p] = RetDecodeError
      /\ outcome[p].msg # RetProcessingError.msg
      /\ db_writes[p] = 0 /\ publishes[p] = 0

C5_Witness ==
  \E p \in Procs :
    response[p] = "badjson" /\ pc[p] = "returned" /\ ai_calls[p] = 1

ClearRuns(p) == pc[p] # "idle" /\ ClearFirestore(context[p])

C6_ClearState ==
  \A p \in Procs :
    ClearRuns(p) =>
      /\ (pc[p] = "returned" => outcome[p] = RetCleared /\ db = {})
      /\ (pc[p] = "clear" /\ passes[p] >= 1 => deleted[p] >= batch_size[p])
      /\ passes[p] <= (n0[p] \div batch_size[p]) + 1
      /\ (n0[p] = 0 => passes[p] <= 1 /\ db_deletes[p] = 0)
      /\ (n0[p] = 0 /\ pc[p] = "returned" => passes[p] = 1)

Unprocessable(ev) ==
  \/ ev.kind \in {"undecodable", "nonjson", "nondict"}
  \/ /\ ev.kind = "dict"
     /\ \/ ev.data.file_path.t \notin {"str", "missing"}
        \/ ev.data.lease_start_date.t \notin {"str", "missing"}
        \/ ev.data.lease_end_date.t \notin {"str", "missing"}

\* C7: a Refresher invocation never raises, requests at most one import, and
\* only after its own successful upload of the object named by the digest of
\* the path; no payload means no upload and no import; a failure to decode,
\* parse or build means the same; a failed upload means no import.
C7_ImportOnlyAfterUpload ==
  \A p \in Procs :
    /\ rpc[p] # "raised"
    /\ imports[p] <= 1 /\ uploads[p] <= 1
    /\ imports[p] = 1 =>
         /\ uploads[p] = 1
         /\ blob_name[p] =
              <<"jsonl-metadata/", MD5Hex(GetOrEmpty(revent[p].data.file_path).s), ".jsonl">>
    /\ revent[p].kind = "nodata" => (uploads[p] = 0 /\ imports[p] = 0)
    /\ Unprocessable(revent[p]) => (uploads[p] = 0 /\ imports[p] = 0)
    /\ fault[p] = "upload" => (uploads[p] = 0 /\ imports[p] = 0)
    /\ rpc[p] = "done" /\ fault[p] = "import" => imports[p] = 1

C7_Witness ==
  \E p \in Procs :
    /\ rpc[p] = "done" /\ uploads[p] = 1 /\ imports[p] = 1
    /\ import_status[p] = "Imported successfully!"
    /\ \E d \in index : d.id = file_hash[p]

\* C8: every staged object and every index document is named by the digest of
\* the file path it carries, so the bucket and the index hold at most one per
\* file path, whatever messages were processed.
C8_OneDocumentPerPath ==
  /\ \A o \in staging :
       /\ o.body.id = MD5Hex(o.body.content.uri)
       /\ o.name = <<"jsonl-metadata/", o.body.id, ".jsonl">>
  /\ \A d \in index : d.id = MD5Hex(d.content.uri)
  /\ \A o1, o2 \in staging : o1.body.content.uri = o2.body.content.uri => o1 = o2
  /\ \A d1, d2 \in index : d1.content.uri = d2.content.uri => d1 = d2

C8_Witness ==
  /\ imports_ok >= 2
  /\ Cardinality(staging) = 1 /\ Cardinality(index) = 1
  /\ \E d \in index : d.content.uri = LeaseUriA

Placeholder == {JMissing, JStr(<<>>), JStr(NotAvailable)}

\* C9: the record built has the sentinel date 1900-01-01 where the input date
\* is missing, "" or "Not Available", rent -1 where the input rent is missing,
\* "" or "Not Available", and the input rent unchanged otherwise.
C9_Defaults ==
  \A p \in Procs :
    rpc[p] = "upload" =>
      /\ revent[p].data.lease_start_date \in Placeholder =>
           jsonl_object[p].structData.lease_start_date = SentinelDate
      /\ revent[p].data.lease_end_date \in Placeholder =>
           jsonl_object[p].structData.lease_end_date = SentinelDate
      /\ revent[p].data.rent \in Placeholder =>
           jsonl_object[p].structData.rent = JInt(-1)
      /\ revent[p].data.rent \notin Placeholder =>
           jsonl_object[p].structData.rent = revent[p].data.rent

C9_Witness ==
  \E p \in Procs :
    /\ rpc[p] = "upload"
    /\ revent[p].data.rent = JInt(2500)
    /\ jsonl_object[p].structData.rent = JInt(2500)
    /\ revent[p].data.lease_start_date = JStr(NotAvailable)
    /\ jsonl_object[p].structData.lease_start_date = SentinelDate
    /\ revent[p].data.lease_end_date = JMissing
    /\ jsonl_object[p].structData.lease_end_date = SentinelDate

\* C10: with overwrite off, invocations that never overlap leave at most one
\* record per path: one that finds a record writes and publishes nothing, one
\* that reports success found none and made the single record and one publish.
\* (Overlapping invocations can leave two: C10_Witness.)
C10_BestEffortDedup ==
  (~OVERWRITE_EXISTING_METADATA /\ ~overlapped) =>
    /\ \A d1, d2 \in db : d1.file_path = d2.file_path => d1.id = d2.id
    /\ \A p \in Procs :
         (Notification(p) /\ QualifyingFile(event[p]) /\ pc[p] = "returned") =>
           /\ had_record[p] => (db_writes[p] = 0 /\ publishes[p] = 0)
           /\ outcome[p] = RetProcessed =>
                /\ ~had_record[p]
                /\ db_writes[p] = 1 /\ publishes[p] = 1
                /\ Cardinality(RecordsOf(pdf_file_uri[p])) = 1
                /\ CopiesIn([file_path |-> pdf_file_uri[p]], channel) >= 1

C10_Witness ==
  /\ ~OVERWRITE_EXISTING_METADATA
  /\ overlapped
  /\ \E d1, d2 \in db :
       /\ d1.file_path = d2.file_path /\ d1.id # d2.id
       /\ CopiesIn([file_path |-> d1.file_path], channel) >= 2

====
